---------------------------- MODULE Spec2Model ----------------------------
(***************************************************************************)
(* Model of src/src/alignment.ts: alignment and distribution of a sequence *)
(* of diagrams.  A caller holds a sequence ds of diagrams and replaces it   *)
(* by the value of one of the six sequence-returning functions applied to   *)
(* it.  It may then repeat that same call on what it got back, or follow an *)
(* alignment by the distribution along the other axis (the two steps of     *)
(* distribute_*_and_align done by hand), until a call throws.               *)
(*                                                                         *)
(* Coordinates are integers (exactly representable JavaScript numbers), so  *)
(* all arithmetic below is exact.  A diagram is known to this code only     *)
(* through get_anchor and translate; it is modelled by its bounding box,    *)
(* given as its centre (x, y) and its half extents (hw, hh).                *)
(***************************************************************************)
EXTENDS Integers, Sequences, FiniteSets, TLC

VARIABLES original, diagrams, call, ds, thrown

vars == <<original, diagrams, call, ds, thrown>>

\* ------------------------------------------------------------------ bounds
MaxLen == 3
MaxGap == 1

\* The diagrams the caller picks from: different positions, widths, heights.
Catalogue ==
    { [x |-> 0, y |-> 0, hw |-> 1, hh |-> 2],
      [x |-> 3, y |-> 1, hw |-> 2, hh |-> 1],
      [x |-> -2, y |-> 4, hw |-> 1, hh |-> 1],
      [x |-> 5, y |-> -3, hw |-> 3, hh |-> 2] }

RECURSIVE SeqsUpTo(_, _)
SeqsUpTo(S, n) ==
    IF n = 0 THEN { <<>> }
    ELSE LET shorter == SeqsUpTo(S, n - 1)
         IN  shorter \cup { Append(s, e) : s \in { t \in shorter : Len(t) = n - 1 }, e \in S }

Spaces == (0 - MaxGap) .. MaxGap

\* ------------------------------------------------- the Diagram collaborator
AnchorNames ==
    { "top-left", "top-center", "top-right",
      "center-left", "center-center", "center-right",
      "bottom-left", "bottom-center", "bottom-right" }

V2(x, y) == [x |-> x, y |-> y]

\* Anchors lie on the 3x3 grid of the bounding box; y increases downwards.
get_anchor(d, anchor) ==
    LET ax == CASE anchor \in {"top-left", "center-left", "bottom-left"}       -> d.x - d.hw
                [] anchor \in {"top-center", "center-center", "bottom-center"} -> d.x
                [] anchor \in {"top-right", "center-right", "bottom-right"}    -> d.x + d.hw
        ay == CASE anchor \in {"top-left", "top-center", "top-right"}          -> d.y - d.hh
                [] anchor \in {"center-left", "center-center", "center-right"} -> d.y
                [] anchor \in {"bottom-left", "bottom-center", "bottom-right"} -> d.y + d.hh
    IN  V2(ax, ay)

\* A new diagram congruent to d, shifted by v.
translate(d, v) == [d EXCEPT !.x = @ + v.x, !.y = @ + v.y]

\* ------------------------------------------------------ outcome of a call
Return(value) == [threw |-> FALSE, value |-> value, message |-> ""]
Throw(message) == [threw |-> TRUE, value |-> <<>>, message |-> message]

\* ------------------------------------------------------------- alignment.ts
VerticalAlignment   == { "top", "center", "bottom" }
HorizontalAlignment == { "left", "center", "right" }

\* What a caller that escapes the type check may pass as an alignment.
Alignments == VerticalAlignment \cup HorizontalAlignment \cup { "middle" }

\* align_vertical with the 'bottom' branch measuring each diagram at its
\* "top-left" anchor (the 'top' branch pasted and half edited).
align_vertical_pasted(diagrams_, alignment) ==
    IF Len(diagrams_) = 0 THEN Return(diagrams_)
    ELSE IF alignment = "top" THEN
        LET top_y == get_anchor(diagrams_[1], "top-left").y
        IN  Return([k \in 1 .. Len(diagrams_) |->
                translate(diagrams_[k], V2(0, top_y - get_anchor(diagrams_[k], "top-left").y))])
    ELSE IF alignment = "center" THEN
        LET center_y == get_anchor(diagrams_[1], "center-left").y
        IN  Return([k \in 1 .. Len(diagrams_) |->
                translate(diagrams_[k], V2(0, center_y - get_anchor(diagrams_[k], "center-left").y))])
    ELSE IF alignment = "bottom" THEN
        LET bottom_y == get_anchor(diagrams_[1], "bottom-left").y
        IN  Return([k \in 1 .. Len(diagrams_) |->
                translate(diagrams_[k], V2(0, bottom_y - get_anchor(diagrams_[k], "top-left").y))])
    ELSE Throw("Unknown vertical alignment : " \o alignment)

\* align_vertical with the 'center' branch taking its reference at the first
\* diagram's "top-left" anchor.
align_vertical_reference(diagrams_, alignment) ==
    IF Len(diagrams_) = 0 THEN Return(diagrams_)
    ELSE IF alignment = "top" THEN
        LET top_y == get_anchor(diagrams_[1], "top-left").y
        IN  Return([k \in 1 .. Len(diagrams_) |->
                translate(diagrams_[k], V2(0, top_y - get_anchor(diagrams_[k], "top-left").y))])
    ELSE IF alignment = "center" THEN
        LET center_y == get_anchor(diagrams_[1], "top-left").y
        IN  Return([k \in 1 .. Len(diagrams_) |->
                translate(diagrams_[k], V2(0, center_y - get_anchor(diagrams_[k], "center-left").y))])
    ELSE IF alignment = "bottom" THEN
        LET bottom_y == get_anchor(diagrams_[1], "bottom-left").y
        IN  Return([k \in 1 .. Len(diagrams_) |->
                translate(diagrams_[k], V2(0, bottom_y - get_anchor(diagrams_[k], "bottom-left").y))])
    ELSE Throw("Unknown vertical alignment : " \o alignment)

align_vertical(diagrams_, alignment) ==
    IF Len(diagrams_) = 0 THEN Return(diagrams_)
    ELSE IF alignment = "top" THEN
        LET top_y == get_anchor(diagrams_[1], "top-left").y
        IN  Return([k \in 1 .. Len(diagrams_) |->
                translate(diagrams_[k], V2(0, top_y - get_anchor(diagrams_[k], "top-left").y))])
    ELSE IF alignment = "center" THEN
        LET center_y == get_anchor(diagrams_[1], "center-left").y
        IN  Return([k \in 1 .. Len(diagrams_) |->
                translate(diagrams_[k], V2(0, center_y - get_anchor(diagrams_[k], "center-left").y))])
    ELSE IF alignment = "bottom" THEN
        LET bottom_y == get_anchor(diagrams_[1], "bottom-left").y
        IN  Return([k \in 1 .. Len(diagrams_) |->
                translate(diagrams_[k], V2(0, bottom_y - get_anchor(diagrams_[k], "bottom-left").y))])
    ELSE Throw("Unknown vertical alignment : " \o alignment)

\* align_horizontal with the 'right' branch measuring each diagram at its
\* "top-left" anchor.
align_horizontal_pasted(diagrams_, alignment) ==
    IF Len(diagrams_) = 0 THEN Return(diagrams_)
    ELSE IF alignment = "left" THEN
        LET left_x == get_anchor(diagrams_[1], "top-left").x
        IN  Return([k \in 1 .. Len(diagrams_) |->
                translate(diagrams_[k], V2(left_x - get_anchor(diagrams_[k], "top-left").x, 0))])
    ELSE IF alignment = "center" THEN
        LET center_x == get_anchor(diagrams_[1], "top-center").x
        IN  Return([k \in 1 .. Len(diagrams_) |->
                translate(diagrams_[k], V2(center_x - get_anchor(diagrams_[k], "top-center").x, 0))])
    ELSE IF alignment = "right" THEN
        LET right_x == get_anchor(diagrams_[1], "top-right").x
        IN  Return([k \in 1 .. Len(diagrams_) |->
                translate(diagrams_[k], V2(right_x - get_anchor(diagrams_[k], "top-left").x, 0))])
    ELSE Throw("Unknown horizontal alignment : " \o alignment)

align_horizontal(diagrams_, alignment) ==
    IF Len(diagrams_) = 0 THEN Return(diagrams_)
    ELSE IF alignment = "left" THEN
        LET left_x == get_anchor(diagrams_[1], "top-left").x
        IN  Return([k \in 1 .. Len(diagrams_) |->
                translate(diagrams_[k], V2(left_x - get_anchor(diagrams_[k], "top-left").x, 0))])
    ELSE IF alignment = "center" THEN
        LET center_x == get_anchor(diagrams_[1], "top-center").x
        IN  Return([k \in 1 .. Len(diagrams_) |->
                translate(diagrams_[k], V2(center_x - get_anchor(diagrams_[k], "top-center").x, 0))])
    ELSE IF alignment = "right" THEN
        LET right_x == get_anchor(diagrams_[1], "top-right").x
        IN  Return([k \in 1 .. Len(diagrams_) |->
                translate(diagrams_[k], V2(right_x - get_anchor(diagrams_[k], "top-right").x, 0))])
    ELSE Throw("Unknown horizontal alignment : " \o alignment)

\* The loop body placing each diagram against its predecessor in the input
\* (an independent map) rather than against the predecessor already placed.
distribute_horizontal_body_map(diagrams_, distributed_diagrams, i, space) ==
    LET prev_diagram == diagrams_[i - 1]
        this_diagram == diagrams_[i]
        prev_right   == get_anchor(prev_diagram, "top-right").x
        this_left    == get_anchor(this_diagram, "top-left").x
        dx           == prev_right - this_left + space
    IN  Append(distributed_diagrams, translate(this_diagram, V2(dx, 0)))

\* The loop body with the sign of the vertical case on the space.
distribute_horizontal_body_sign(diagrams_, distributed_diagrams, i, space) ==
    LET prev_diagram == distributed_diagrams[i - 1]
        this_diagram == diagrams_[i]
        prev_right   == get_anchor(prev_diagram, "top-right").x
        this_left    == get_anchor(this_diagram, "top-left").x
        dx           == prev_right - this_left - space
    IN  Append(distributed_diagrams, translate(this_diagram, V2(dx, 0)))

\* The loop body taking this_diagram one index too low.
distribute_horizontal_body_index(diagrams_, distributed_diagrams, i, space) ==
    LET prev_diagram == distributed_diagrams[i - 1]
        this_diagram == diagrams_[i - 1]
        prev_right   == get_anchor(prev_diagram, "top-right").x
        this_left    == get_anchor(this_diagram, "top-left").x
        dx           == prev_right - this_left + space
    IN  Append(distributed_diagrams, translate(this_diagram, V2(dx, 0)))

\* The body of the loop of distribute_horizontal, for the 1-based index i
\* (the code's i + 1): the list with the placed diagram i pushed onto it.
distribute_horizontal_body(diagrams_, distributed_diagrams, i, space) ==
    LET prev_diagram == distributed_diagrams[i - 1]
        this_diagram == diagrams_[i]
        prev_right   == get_anchor(prev_diagram, "top-right").x
        this_left    == get_anchor(this_diagram, "top-left").x
        dx           == prev_right - this_left + space
    IN  Append(distributed_diagrams, translate(this_diagram, V2(dx, 0)))

RECURSIVE distribute_horizontal_loop(_, _, _, _)
distribute_horizontal_loop(diagrams_, distributed_diagrams, i, space) ==
    IF i > Len(diagrams_) THEN distributed_diagrams
    ELSE distribute_horizontal_loop(diagrams_,
             distribute_horizontal_body(diagrams_, distributed_diagrams, i, space),
             i + 1, space)

distribute_horizontal(diagrams_, space) ==
    IF Len(diagrams_) = 0 THEN diagrams_
    ELSE distribute_horizontal_loop(diagrams_, << diagrams_[1] >>, 2, space)

\* The loop body with the sign of the horizontal case on the space.
distribute_vertical_body_sign(diagrams_, distributed_diagrams, i, space) ==
    LET prev_diagram == distributed_diagrams[i - 1]
        this_diagram == diagrams_[i]
        prev_bottom  == get_anchor(prev_diagram, "bottom-left").y
        this_top     == get_anchor(this_diagram, "top-left").y
        dy           == prev_bottom - this_top + space
    IN  Append(distributed_diagrams, translate(this_diagram, V2(0, dy)))

\* The loop body with the components of the displacement swapped.
distribute_vertical_body_swapped(diagrams_, distributed_diagrams, i, space) ==
    LET prev_diagram == distributed_diagrams[i - 1]
        this_diagram == diagrams_[i]
        prev_bottom  == get_anchor(prev_diagram, "bottom-left").y
        this_top     == get_anchor(this_diagram, "top-left").y
        dy           == prev_bottom - this_top - space
    IN  Append(distributed_diagrams, translate(this_diagram, V2(dy, 0)))

distribute_vertical_body(diagrams_, distributed_diagrams, i, space) ==
    LET prev_diagram == distributed_diagrams[i - 1]
        this_diagram == diagrams_[i]
        prev_bottom  == get_anchor(prev_diagram, "bottom-left").y
        this_top     == get_anchor(this_diagram, "top-left").y
        dy           == prev_bottom - this_top - space
    IN  Append(distributed_diagrams, translate(this_diagram, V2(0, dy)))

RECURSIVE distribute_vertical_loop(_, _, _, _)
distribute_vertical_loop(diagrams_, distributed_diagrams, i, space) ==
    IF i > Len(diagrams_) THEN distributed_diagrams
    ELSE distribute_vertical_loop(diagrams_,
             distribute_vertical_body(diagrams_, distributed_diagrams, i, space),
             i + 1, space)

distribute_vertical(diagrams_, space) ==
    IF Len(diagrams_) = 0 THEN diagrams_
    ELSE distribute_vertical_loop(diagrams_, << diagrams_[1] >>, 2, space)

\* distribute_horizontal_and_align distributing along the wrong axis.
distribute_horizontal_and_align_axis(diagrams_, horizontal_space, alignment) ==
    LET aligned == align_vertical(diagrams_, alignment)
    IN  IF aligned.threw THEN aligned
        ELSE Return(distribute_vertical(aligned.value, horizontal_space))

\* An exception of the inner call propagates through the outer one.
distribute_horizontal_and_align(diagrams_, horizontal_space, alignment) ==
    LET aligned == align_vertical(diagrams_, alignment)
    IN  IF aligned.threw THEN aligned
        ELSE Return(distribute_horizontal(aligned.value, horizontal_space))

distribute_vertical_and_align(diagrams_, vertical_space, alignment) ==
    LET aligned == align_horizontal(diagrams_, alignment)
    IN  IF aligned.threw THEN aligned
        ELSE Return(distribute_vertical(aligned.value, vertical_space))

\* ------------------------------------------------------------ the caller
NoCall == [op |-> "none", alignment |-> "center", space |-> 0]

Init ==
    /\ original \in SeqsUpTo(Catalogue, MaxLen)
    /\ diagrams = original
    /\ ds = original
    /\ call = NoCall
    /\ thrown = ""

\* The call whose value distribute_*_and_align hands to op ("none": no such).
Follows(op) ==
    CASE op = "distribute_horizontal" -> "align_vertical"
      [] op = "distribute_vertical"   -> "align_horizontal"
      [] OTHER                        -> "none"

\* ds = op(ds, ...), as a first call, as a repeat of the previous call, or as
\* the distribution of what the previous call aligned; on a throw the
\* assignment does not happen and the caller stops.
Invoke(op, alignment, space, outcome) ==
    /\ thrown = ""
    /\ \/ call.op = "none"
       \/ call = [op |-> op, alignment |-> alignment, space |-> space]
       \/ call.op = Follows(op)
    /\ diagrams' = ds
    /\ call' = [op |-> op, alignment |-> alignment, space |-> space]
    /\ ds' = IF outcome.threw THEN ds ELSE outcome.value
    /\ thrown' = outcome.message
    /\ UNCHANGED original

AlignVertical ==
    \E alignment \in Alignments :
        Invoke("align_vertical", alignment, 0, align_vertical(ds, alignment))

AlignHorizontal ==
    \E alignment \in Alignments :
        Invoke("align_horizontal", alignment, 0, align_horizontal(ds, alignment))

DistributeHorizontal ==
    \E space \in Spaces :
        Invoke("distribute_horizontal", "center", space,
               Return(distribute_horizontal(ds, space)))

DistributeVertical ==
    \E space \in Spaces :
        Invoke("distribute_vertical", "center", space,
               Return(distribute_vertical(ds, space)))

DistributeHorizontalAndAlign ==
    \E space \in Spaces, alignment \in Alignments :
        Invoke("distribute_horizontal_and_align", alignment, space,
               distribute_horizontal_and_align(ds, space, alignment))

DistributeVerticalAndAlign ==
    \E space \in Spaces, alignment \in Alignments :
        Invoke("distribute_vertical_and_align", alignment, space,
               distribute_vertical_and_align(ds, space, alignment))

Next ==
    \/ AlignVertical
    \/ AlignHorizontal
    \/ DistributeHorizontal
    \/ DistributeVertical
    \/ DistributeHorizontalAndAlign
    \/ DistributeVerticalAndAlign

Spec == Init /\ [][Next]_vars

\* ------------------------------------------------------------- properties
\* The anchor each alignment mode selects (spec, 4.1).
VerticalAnchor(alignment) ==
    CASE alignment = "top"    -> "top-left"
      [] alignment = "center" -> "center-left"
      [] alignment = "bottom" -> "bottom-left"

HorizontalAnchor(alignment) ==
    CASE alignment = "left"   -> "top-left"
      [] alignment = "center" -> "top-center"
      [] alignment = "right"  -> "top-right"

Width(d)  == get_anchor(d, "top-right").x - get_anchor(d, "top-left").x
Height(d) == get_anchor(d, "bottom-left").y - get_anchor(d, "top-left").y

SameX(d, e) == \A a \in AnchorNames : get_anchor(d, a).x = get_anchor(e, a).x
SameY(d, e) == \A a \in AnchorNames : get_anchor(d, a).y = get_anchor(e, a).y

\* The sum of the widths of s[from .. to].
RECURSIVE SumWidths(_, _, _)
SumWidths(s, from, to) ==
    IF from > to THEN 0 ELSE Width(s[from]) + SumWidths(s, from + 1, to)

\* C1: after align_vertical(S, m) on a non-empty S with m in {top, center,
\* bottom}, every output element's anchor for m (top-left, center-left,
\* bottom-left) has the y of that anchor of the original S[0], and every
\* output element keeps its own original x.
C1_AlignVerticalAnchors ==
    (call.op = "align_vertical" /\ call.alignment \in VerticalAlignment /\ Len(diagrams) > 0) =>
        /\ thrown = ""
        /\ Len(ds) = Len(diagrams)
        /\ \A i \in 1 .. Len(ds) :
              /\ get_anchor(ds[i], VerticalAnchor(call.alignment)).y
                    = get_anchor(diagrams[1], VerticalAnchor(call.alignment)).y
              /\ SameX(ds[i], diagrams[i])

C1_Witness ==
    /\ call.op = "align_vertical"
    /\ call.alignment = "bottom"
    /\ diagrams = original
    /\ Len(diagrams) >= 3
    /\ \A i \in 2 .. Len(ds) : ds[i] # diagrams[i]

\* C2: after align_horizontal(S, m) on a non-empty S with m in {left, center,
\* right}, every output element's anchor for m (top-left, top-center,
\* top-right) has the x of that anchor of the original S[0], and every output
\* element keeps its own original y.
C2_AlignHorizontalAnchors ==
    (call.op = "align_horizontal" /\ call.alignment \in HorizontalAlignment /\ Len(diagrams) > 0) =>
        /\ thrown = ""
        /\ Len(ds) = Len(diagrams)
        /\ \A i \in 1 .. Len(ds) :
              /\ get_anchor(ds[i], HorizontalAnchor(call.alignment)).x
                    = get_anchor(diagrams[1], HorizontalAnchor(call.alignment)).x
              /\ SameY(ds[i], diagrams[i])

C2_Witness ==
    /\ call.op = "align_horizontal"
    /\ call.alignment = "right"
    /\ diagrams = original
    /\ Len(diagrams) >= 3
    /\ \A i \in 2 .. Len(ds) : ds[i] # diagrams[i]

\* C3: in the output of distribute_horizontal(S, gap) with |S| >= 2, for any
\* gap, each element's top-left x minus its predecessor's top-right x is gap.
C3_HorizontalGap ==
    (call.op = "distribute_horizontal" /\ Len(diagrams) >= 2) =>
        /\ thrown = ""
        /\ Len(ds) = Len(diagrams)
        /\ \A i \in 2 .. Len(ds) :
              get_anchor(ds[i], "top-left").x - get_anchor(ds[i - 1], "top-right").x = call.space

C3_Witness ==
    /\ call.op = "distribute_horizontal"
    /\ call.space < 0
    /\ diagrams = original
    /\ Len(diagrams) >= 3
    /\ \A i \in 2 .. Len(ds) : ds[i] # diagrams[i]

\* C4: in the output of distribute_vertical(S, gap), for any gap, each
\* element's predecessor's bottom-left y minus its own top-left y is gap.
C4_VerticalGap ==
    (call.op = "distribute_vertical" /\ Len(diagrams) >= 1) =>
        /\ thrown = ""
        /\ Len(ds) = Len(diagrams)
        /\ \A i \in 2 .. Len(ds) :
              get_anchor(ds[i - 1], "bottom-left").y - get_anchor(ds[i], "top-left").y = call.space

C4_Witness ==
    /\ call.op = "distribute_vertical"
    /\ call.space > 0
    /\ diagrams = original
    /\ Len(diagrams) >= 3
    /\ \A i \in 2 .. Len(ds) : ds[i] # diagrams[i]

\* C5: a call of align_vertical, align_horizontal or of a composition that
\* passes the mode through, with a mode outside the function's enumerated
\* set, throws and produces no output, for every input sequence, the empty
\* one included.
C5_UnknownAlignmentThrows ==
    (\/ /\ call.op \in { "align_vertical", "distribute_horizontal_and_align" }
        /\ call.alignment \notin VerticalAlignment
     \/ /\ call.op \in { "align_horizontal", "distribute_vertical_and_align" }
        /\ call.alignment \notin HorizontalAlignment) =>
        /\ thrown # ""
        /\ ds = diagrams

\* One step of the caller, for C6: a distribution that follows an alignment
\* gives what the composed function gives on the alignment's input, and a
\* call of a composed function gives the distribution of the alignment of
\* its input.
C6_Step ==
    /\ (/\ call.op = "align_vertical" /\ call.alignment \in VerticalAlignment
        /\ call'.op = "distribute_horizontal") =>
            Return(ds') = distribute_horizontal_and_align(diagrams, call'.space, call.alignment)
    /\ (/\ call.op = "align_horizontal" /\ call.alignment \in HorizontalAlignment
        /\ call'.op = "distribute_vertical") =>
            Return(ds') = distribute_vertical_and_align(diagrams, call'.space, call.alignment)
    /\ (/\ call'.op = "distribute_horizontal_and_align"
        /\ call'.alignment \in VerticalAlignment) =>
            /\ thrown' = ""
            /\ ds' = distribute_horizontal(
                        align_vertical(diagrams', call'.alignment).value, call'.space)
    /\ (/\ call'.op = "distribute_vertical_and_align"
        /\ call'.alignment \in HorizontalAlignment) =>
            /\ thrown' = ""
            /\ ds' = distribute_vertical(
                        align_horizontal(diagrams', call'.alignment).value, call'.space)

\* C6: for every sequence S, gap g and valid mode m,
\* distribute_horizontal_and_align(S, g, m) is element-wise identical to
\* distribute_horizontal(align_vertical(S, m), g), and
\* distribute_vertical_and_align(S, g, m) to
\* distribute_vertical(align_horizontal(S, m), g).
C6_CompositionLaw == [][C6_Step]_vars

\* A distribution has followed an alignment that moved something, and has
\* moved something itself.
C6_Witness ==
    /\ call.op = "distribute_horizontal"
    /\ Len(diagrams) >= 3
    /\ \E i \in 1 .. Len(diagrams) : ~ SameY(diagrams[i], original[i])
    /\ \A i \in 2 .. Len(ds) : ds[i] # diagrams[i]

\* C7: align_vertical run again with the same mode on its own output returns
\* that output: every displacement of the second run is zero.
C7_AlignVerticalIdempotent ==
    [][(call.op = "align_vertical" /\ call' = call) => (thrown' = "" /\ ds' = ds)]_vars

\* align_vertical has been repeated on the output of a run that moved
\* something.
C7_Witness ==
    /\ call.op = "align_vertical"
    /\ call.alignment \in VerticalAlignment
    /\ Len(diagrams) >= 3
    /\ diagrams # original

\* The call made is one the claims call valid: a distribution, or an
\* alignment or composition with a mode of its enumerated set.
ValidCall ==
    \/ call.op \in { "distribute_horizontal", "distribute_vertical" }
    \/ /\ call.op \in { "align_vertical", "distribute_horizontal_and_align" }
       /\ call.alignment \in VerticalAlignment
    \/ /\ call.op \in { "align_horizontal", "distribute_vertical_and_align" }
       /\ call.alignment \in HorizontalAlignment

\* C8: each of the six operations, called with a valid mode, returns a
\* sequence of the length of its input (an empty one for an empty input,
\* without error), and output[i] is input[i] translated: all its anchors are
\* displaced by one vector, so its width and height are those of input[i].
C8_LengthAndShape ==
    ValidCall =>
        /\ thrown = ""
        /\ Len(ds) = Len(diagrams)
        /\ \A i \in 1 .. Len(ds) :
              /\ Width(ds[i]) = Width(diagrams[i])
              /\ Height(ds[i]) = Height(diagrams[i])
              /\ \A a \in AnchorNames :
                    /\ get_anchor(ds[i], a).x - get_anchor(diagrams[i], a).x
                          = get_anchor(ds[i], "top-left").x - get_anchor(diagrams[i], "top-left").x
                    /\ get_anchor(ds[i], a).y - get_anchor(diagrams[i], a).y
                          = get_anchor(ds[i], "top-left").y - get_anchor(diagrams[i], "top-left").y

C8_Witness ==
    /\ ValidCall
    /\ call.op = "distribute_horizontal"
    /\ Len(diagrams) >= 3
    /\ \A i \in 2 .. Len(ds) : ds[i] # diagrams[i]
    /\ \A i \in 2 .. Len(ds) : Width(diagrams[i]) # Width(diagrams[i - 1])

\* C9: distribute_horizontal leaves the first element where it was (a single
\* element is returned unchanged), and places element i >= 1 (counted from 0)
\* with its top-left x at the first input's top-right x, plus the widths of
\* the inputs 1 .. i-1, plus i times the gap, whatever the original x of the
\* inputs 1 .. i.
C9_HorizontalFold ==
    (call.op = "distribute_horizontal" /\ Len(diagrams) >= 1) =>
        /\ Len(ds) = Len(diagrams)
        /\ ds[1] = diagrams[1]
        /\ \A k \in 2 .. Len(ds) :
              get_anchor(ds[k], "top-left").x
                  = get_anchor(diagrams[1], "top-right").x
                    + SumWidths(diagrams, 2, k - 1) + (k - 1) * call.space

C9_Witness ==
    /\ call.op = "distribute_horizontal"
    /\ call.space # 0
    /\ diagrams = original
    /\ Len(diagrams) >= 3
    /\ Width(diagrams[2]) # Width(diagrams[1])
    /\ ds[3] # diagrams[3]

\* C10: distribution moves along its own axis only.  In the output of
\* distribute_horizontal_and_align(S, g, m) on a non-empty S every element's
\* mode-m anchor has the y of that anchor of the original S[0]; in the output
\* of distribute_vertical_and_align(S, g, m) every element's mode-m anchor
\* has the x of that anchor of the original S[0]; distribute_horizontal
\* leaves every y and distribute_vertical every x unchanged.
C10_CrossAxisKept ==
    /\ (/\ call.op = "distribute_horizontal_and_align"
        /\ call.alignment \in VerticalAlignment /\ Len(diagrams) >= 1) =>
            /\ Len(ds) = Len(diagrams)
            /\ \A i \in 1 .. Len(ds) :
                  get_anchor(ds[i], VerticalAnchor(call.alignment)).y
                      = get_anchor(diagrams[1], VerticalAnchor(call.alignment)).y
    /\ (/\ call.op = "distribute_vertical_and_align"
        /\ call.alignment \in HorizontalAlignment /\ Len(diagrams) >= 1) =>
            /\ Len(ds) = Len(diagrams)
            /\ \A i \in 1 .. Len(ds) :
                  get_anchor(ds[i], HorizontalAnchor(call.alignment)).x
                      = get_anchor(diagrams[1], HorizontalAnchor(call.alignment)).x
    /\ call.op = "distribute_horizontal" =>
            /\ Len(ds) = Len(diagrams)
            /\ \A i \in 1 .. Len(ds) : SameY(ds[i], diagrams[i])
    /\ call.op = "distribute_vertical" =>
            /\ Len(ds) = Len(diagrams)
            /\ \A i \in 1 .. Len(ds) : SameX(ds[i], diagrams[i])

C10_Witness ==
    /\ call.op = "distribute_vertical_and_align"
    /\ call.alignment = "right"
    /\ call.space # 0
    /\ diagrams = original
    /\ Len(diagrams) >= 3
    /\ \A i \in 2 .. Len(ds) :
          ~ SameX(ds[i], diagrams[i]) /\ ~ SameY(ds[i], diagrams[i])

=============================================================================
